---- MODULE Spec2Model ----
(***************************************************************************)
(* Model of the inline consent form (component App) of the Fides inline    *)
(* consent example: the fides_consent cookie, the startup chain run by     *)
(* useEffect (geolocation -> privacy experience -> notices-served) and the *)
(* form submission (cookie update + privacy-preferences request and its    *)
(* answer).  Spec is the whole component; SpecSelect, SpecGeo and SpecLive *)
(* are the notice selection, the region resolution and the startup alone,  *)
(* and SpecShared adds another writer of the cookie.                       *)
(*                                                                         *)
(* Text is modelled as a sequence of tokens.  The JSON punctuation and the *)
(* characters ";", "%", "=" are reserved for encodeURIComponent, which     *)
(* writes each of them as the two tokens "%", Hex(c).                      *)
(***************************************************************************)
EXTENDS Integers, Sequences, FiniteSets, TLC

\* ------------------------------------------------------------------ bounds
\* Number of times the component is mounted (page loads) in a behaviour.
MaxSessions == 2
\* Number of form submissions in a behaviour.
MaxSubmits == 2
\* Longest privacy_notices array of the catalog answers of SpecSelect.
MaxNotices == 3
\* Longest location string of the geolocation answers of SpecGeo.
MaxLocation == 4

\* ------------------------------------------------------------ JS values
Undefined == [tag |-> "undefined"]
Null == [tag |-> "null"]
EmptyObject == [tag |-> "empty"]
Throw(e) == [tag |-> "throw", err |-> e]
Str(s) == [tag |-> "str", val |-> s]

\* ------------------------------------------------------------------ text
StructTokens == {"{", "}", "consent:", "id:", "version:", "createdAt:", "updatedAt:", "extra:"}
SpecialChars == {";", "%", "="}
Reserved == StructTokens \cup SpecialChars
Hex(c) == "x" \o c
HexTokens == {Hex(c) : c \in Reserved}
Unhex(h) == CHOOSE c \in Reserved : Hex(c) = h

\* encodeURIComponent: every reserved character becomes a percent escape.
RECURSIVE encodeURIComponent(_)
encodeURIComponent(s) ==
    IF s = <<>> THEN <<>>
    ELSE (IF Head(s) \in Reserved THEN <<"%", Hex(Head(s))>> ELSE <<Head(s)>>)
         \o encodeURIComponent(Tail(s))

encodeCookie(value) == encodeURIComponent(value)

\* decodeURIComponent: a percent escape becomes its character; a "%" that
\* starts no escape is a URIError.
RECURSIVE decodeURIComponent(_)
decodeURIComponent(s) ==
    IF s = <<>> THEN Str(<<>>)
    ELSE IF Head(s) = "%"
         THEN IF Len(s) >= 2 /\ s[2] \in HexTokens
              THEN LET rest == decodeURIComponent(SubSeq(s, 3, Len(s)))
                   IN IF rest.tag = "throw" THEN rest
                      ELSE Str(<<Unhex(s[2])>> \o rest.val)
              ELSE Throw("URIError")
         ELSE LET rest == decodeURIComponent(Tail(s))
              IN IF rest.tag = "throw" THEN rest
                 ELSE Str(<<Head(s)>> \o rest.val)

\* A decoder that returns the stored text as it is.
decodeCookieAsIs(value) == Str(value)

decodeCookie(value) == decodeURIComponent(value)

\* JSON.stringify of the cookie object: the known fields in insertion order,
\* then the fields the component does not know (extra), kept as they are.
BoolText(b) == IF b THEN "true" ELSE "false"
JSONstringify(o) ==
    <<"{", "consent:", BoolText(o.consent), "id:", o.deviceId,
      "version:", o.version, "createdAt:", o.createdAt, "updatedAt:", o.updatedAt>>
    \o (IF o.extra = <<>> THEN <<>> ELSE <<"extra:">> \o o.extra)
    \o <<"}">>

\* JSON.parse: the inverse of JSONstringify; any other text is a SyntaxError
\* (or an object without .consent / .identity, a TypeError at its first use).
IsValue(t) == t \notin StructTokens
JSONparse(s) ==
    IF /\ Len(s) >= 12
       /\ s[1] = "{" /\ s[Len(s)] = "}"
       /\ s[2] = "consent:" /\ s[3] \in {"true", "false"}
       /\ s[4] = "id:" /\ IsValue(s[5])
       /\ s[6] = "version:" /\ IsValue(s[7])
       /\ s[8] = "createdAt:" /\ IsValue(s[9])
       /\ s[10] = "updatedAt:" /\ IsValue(s[11])
       /\ \/ Len(s) = 12
          \/ /\ Len(s) >= 14
             /\ s[12] = "extra:"
             /\ \A i \in 13..(Len(s) - 1) : IsValue(s[i])
    THEN [tag |-> "obj",
          val |-> [consent |-> (s[3] = "true"), deviceId |-> s[5], version |-> s[7],
                   createdAt |-> s[9], updatedAt |-> s[11],
                   extra |-> IF Len(s) = 12 THEN <<>> ELSE SubSeq(s, 13, Len(s) - 1)]]
    ELSE Throw("SyntaxError")

\* ---------------------------------------------------------------- cookie
\* The slot of the cookie fides_consent: NoCookie, or the stored value.
NoCookie == [tag |-> "absent"]
Stored(v) == [tag |-> "cookie", val |-> v]

\* value.split(";")[0]
RECURSIVE UpToSemicolon(_)
UpToSemicolon(s) ==
    IF s = <<>> \/ Head(s) = ";" THEN <<>>
    ELSE <<Head(s)>> \o UpToSemicolon(Tail(s))

\* document.cookie = `fides_consent=${value}; path=/; max-age=31536000`:
\* the browser keeps the text up to the first ";" as the value.
WriteCookie(value) == Stored(UpToSemicolon(value))


\* getCookie looking for a name no cookie has.
getCookieWrongName(slot) == Undefined

\* getCookie('fides_consent'): undefined when the cookie is not there,
\* otherwise the decoded value (decodeCookie may throw).
getCookie(slot) ==
    IF slot.tag = "absent" THEN Undefined
    ELSE decodeCookie(UpToSemicolon(slot.val))

\* JavaScript truthiness of a string | undefined.
Truthy(v) == v.tag = "str" /\ v.val # <<>>

\* new Date().toISOString() at clock value t; uuidv4() number n.
ISOString(t) == "t" \o ToString(t)
Uuid(n) == "u" \o ToString(n)

\* updateConsentCookie recording consent as given whatever the checkbox says.
updateConsentCookieTrue(slot, consent) ==
    LET consentCookieData == getCookie(slot)
    IN IF consentCookieData.tag = "throw" THEN consentCookieData
       ELSE IF ~Truthy(consentCookieData) THEN [tag |-> "ok", slot |-> slot, wrote |-> FALSE, value |-> Undefined]
       ELSE LET parsed == JSONparse(consentCookieData.val)
            IN IF parsed.tag = "throw" THEN parsed
               ELSE LET parsedData == [parsed.val EXCEPT !.consent = TRUE]
                    IN [tag |-> "ok",
                        slot |-> WriteCookie(encodeCookie(JSONstringify(parsedData))),
                        wrote |-> TRUE, value |-> parsedData]

\* updateConsentCookie writing the JSON text without encodeCookie.
updateConsentCookieRaw(slot, consent) ==
    LET consentCookieData == getCookie(slot)
    IN IF consentCookieData.tag = "throw" THEN consentCookieData
       ELSE IF ~Truthy(consentCookieData) THEN [tag |-> "ok", slot |-> slot, wrote |-> FALSE, value |-> Undefined]
       ELSE LET parsed == JSONparse(consentCookieData.val)
            IN IF parsed.tag = "throw" THEN parsed
               ELSE LET parsedData == [parsed.val EXCEPT !.consent = consent]
                    IN [tag |-> "ok",
                        slot |-> WriteCookie(JSONstringify(parsedData)),
                        wrote |-> TRUE, value |-> parsedData]

\* updateConsentCookie with formData.consent = consent: the slot afterwards,
\* or the exception thrown.
updateConsentCookie(slot, consent) ==
    LET consentCookieData == getCookie(slot)
    IN IF consentCookieData.tag = "throw" THEN consentCookieData
       ELSE IF ~Truthy(consentCookieData) THEN [tag |-> "ok", slot |-> slot, wrote |-> FALSE, value |-> Undefined]
       ELSE LET parsed == JSONparse(consentCookieData.val)
            IN IF parsed.tag = "throw" THEN parsed
               ELSE LET parsedData == [parsed.val EXCEPT !.consent = consent]
                    IN [tag |-> "ok",
                        slot |-> WriteCookie(encodeCookie(JSONstringify(parsedData))),
                        wrote |-> TRUE, value |-> parsedData]

\* setOrCheckFidesConsentCookie at clock value t, where uuidv4() would give
\* newId: the object returned and the slot afterwards, or the exception.
setOrCheckFidesConsentCookie(slot, t, newId) ==
    LET existingCookieValue == getCookie(slot)
    IN IF existingCookieValue.tag = "throw" THEN existingCookieValue
       ELSE IF Truthy(existingCookieValue)
       THEN LET parsed == JSONparse(existingCookieValue.val)
            IN IF parsed.tag = "throw" THEN parsed
               ELSE [tag |-> "ok", value |-> parsed.val, slot |-> slot, generated |-> FALSE]
       ELSE LET consentObject == [consent |-> FALSE, deviceId |-> newId, version |-> "0.9.0",
                                  createdAt |-> ISOString(t), updatedAt |-> ISOString(t),
                                  extra |-> <<>>]
            IN [tag |-> "ok", value |-> consentObject,
                slot |-> WriteCookie(JSONstringify(consentObject)), generated |-> TRUE]

\* --------------------------------------------------- geography, notices
\* String.prototype.toLowerCase, character by character.
LowerChar(c) ==
    CASE c = "E" -> "e" [] c = "N" -> "n" [] c = "U" -> "u" [] c = "S" -> "s" [] OTHER -> c
toLowerCase(s) == [i \in 1..Len(s) |-> LowerChar(s[i])]

\* String.prototype.replace(from, to) with a string pattern: the first
\* occurrence only.
RECURSIVE replace(_, _, _)
replace(s, from, to) ==
    IF s = <<>> THEN <<>>
    ELSE IF Head(s) = from THEN <<to>> \o Tail(s)
    ELSE <<Head(s)>> \o replace(Tail(s), from, to)

\* notice.notice_key?.endsWith("signup")
SignupSuffix == <<"signup">>
endsWith(s, suffix) ==
    /\ Len(s) >= Len(suffix)
    /\ SubSeq(s, Len(s) - Len(suffix) + 1, Len(s)) = suffix
IsSignup(notice) ==
    /\ notice.notice_key.tag = "str"
    /\ endsWith(notice.notice_key.val, SignupSuffix)

\* The array walked from its last element.
RECURSIVE findLast(_)
findLast(notices) ==
    IF notices = <<>> THEN Undefined
    ELSE IF IsSignup(notices[Len(notices)]) THEN notices[Len(notices)]
    ELSE findLast(SubSeq(notices, 1, Len(notices) - 1))

\* Array.prototype.find((notice) => notice.notice_key?.endsWith("signup")):
\* the array is walked from its first element and the walk ends at a match.
RECURSIVE find(_)
find(notices) ==
    IF notices = <<>> THEN Undefined
    ELSE IF IsSignup(Head(notices)) THEN Head(notices)
    ELSE find(Tail(notices))

\* processNotices up to its await: noticesData.items[0], the signup notice
\* and, unless building the request body throws, the notices-served body.
FirstItem(noticesData) ==
    IF noticesData.items = <<>> THEN Undefined ELSE noticesData.items[1]
selectNotice(noticesData) ==
    LET noticeData == FirstItem(noticesData)
    IN IF noticeData.tag = "undefined" THEN Undefined ELSE find(noticeData.privacy_notices)
noticesServedBody(noticesData, fidesDeviceId, userGeo) ==
    LET noticeData == FirstItem(noticesData)
        signUpNotice == selectNotice(noticesData)
    IN IF noticeData.tag = "undefined" \/ signUpNotice.tag = "undefined"
       THEN Throw("TypeError")
       ELSE [tag |-> "body",
             acknowledge_mode |-> FALSE,
             fides_user_device_id |-> fidesDeviceId,
             privacy_experience_id |-> noticeData.id,
             privacy_notice_history_ids |-> <<signUpNotice.privacy_notice_history_id>>,
             serving_component |-> "overlay",
             user_geography |-> userGeo]


\* A property of a state cell; the cells start as {}.
Field(obj, name) == IF obj.tag = "empty" THEN "undefined" ELSE obj[name]
Preference(consent) == IF consent THEN "opt_in" ELSE "opt_out"

\* A request body built without reading the deviceId cell.
recordConsentOnServerAnonymous(c) ==
    IF c.noticeServed.tag = "undefined" THEN Throw("TypeError")
    ELSE [tag |-> "body",
          fides_user_device_id |-> "",
          privacy_notice_history_id |-> Field(c.privacyNotice, "privacy_notice_history_id"),
          preference |-> Preference(c.consent),
          served_notice_history_id |-> Field(c.noticeServed, "served_notice_history_id"),
          privacy_experience_id |-> Field(c.privacyExperience, "id"),
          user_geography |-> c.userGeo,
          method |-> "button"]

\* recordConsentOnServer: the body of the privacy-preferences request built
\* from the state cells; reading a property of an undefined cell throws.
recordConsentOnServer(c) ==
    IF c.noticeServed.tag = "undefined" THEN Throw("TypeError")
    ELSE [tag |-> "body",
          fides_user_device_id |-> c.deviceId,
          privacy_notice_history_id |-> Field(c.privacyNotice, "privacy_notice_history_id"),
          preference |-> Preference(c.consent),
          served_notice_history_id |-> Field(c.noticeServed, "served_notice_history_id"),
          privacy_experience_id |-> Field(c.privacyExperience, "id"),
          user_geography |-> c.userGeo,
          method |-> "button"]

\* The Submit button: disabled={!privacyNotice?.description}; the consent
\* checkbox is rendered under the same condition.
Description(notice) == IF notice.tag = "notice" THEN notice.description ELSE ""
SubmitAlwaysEnabled(c) == TRUE
SubmitEnabled(c) == Description(c.privacyNotice) # ""
CheckboxShown(c) == Description(c.privacyNotice) # ""

\* ------------------------------------------------------------ environment
\* Cookie objects found at the first page load, written during an earlier
\* visit by a writer of the same cookie that keeps more fields.  (A record
\* written by this component is the one a first page load leaves behind.)
PriorRecords ==
    {[consent |-> b, deviceId |-> Uuid(0), version |-> "0.8.0",
      createdAt |-> ISOString(0), updatedAt |-> ISOString(0),
      extra |-> <<";", "%", "=">>] : b \in BOOLEAN}
InitialSlots ==
    {NoCookie, Stored(<<>>), Stored(<<"garbage">>)}
    \cup {WriteCookie(encodeCookie(JSONstringify(r))) : r \in PriorRecords}

Fail == [tag |-> "fail"]

\* Answers of the geolocation service: { location, country }.
Locations == {<<"E", "N", "-", "U", "S">>}
LocationResponses ==
    {Fail}
    \cup {[tag |-> "json", location |-> Str(l), country |-> Str(<<"U", "S">>)] : l \in Locations}
    \cup {[tag |-> "json", location |-> Str(<<"E", "N", "-", "U", "S">>), country |-> Undefined]}
    \cup {[tag |-> "json", location |-> Undefined, country |-> Undefined]}

\* Answers of the privacy-experience catalog: { items: PrivacyExperience[] }.
Notice(key, hid, desc) ==
    [tag |-> "notice", notice_key |-> key, privacy_notice_history_id |-> hid,
     description |-> desc]
Marketing == Notice(Str(<<"marketing">>), "h0", "Marketing")
EmailSignup == Notice(Str(<<"email", "_", "signup">>), "h1", "Email me")
OtherSignup == Notice(Str(<<"other", "_", "signup">>), "h2", "Other")
SilentSignup == Notice(Str(<<"sms", "_", "signup">>), "h3", "")
Experience(id, notices) == [tag |-> "experience", id |-> id, privacy_notices |-> notices]
Page(items) == [tag |-> "json", items |-> items]
ExperienceResponses ==
    {Fail, Null,
     Page(<<>>),
     Page(<<Experience("e1", <<Marketing, EmailSignup, OtherSignup>>)>>),
     Page(<<Experience("e2", <<Marketing>>)>>),
     Page(<<Experience("e3", <<SilentSignup>>)>>)}

\* Answers of notices-served: NoticesServedResponse[], here the
\* served_notice_history_id of each element.
ServedResponses == {Fail, [tag |-> "json", items |-> <<>>],
                    [tag |-> "json", items |-> <<"s2", "s1">>]}

\* ------------------------------------------------------------------ state
VARIABLES
    cookie,      \* the slot of the cookie fides_consent
    uuids,       \* how many ids uuidv4() has produced
    session,     \* number of the latest mount of App (0: none yet)
    mounted,     \* whether that instance of App is mounted
    chain,       \* per mount: the run of fetchRegionAndNotices / processNotices
    cells,       \* the useState cells of the mounted instance
    prefs,       \* privacy-preferences bodies sent by the latest instance
    pending,     \* number of privacy-preferences requests not yet answered
    lastSubmit,  \* what the latest handleSubmit did
    written,     \* the object last handed to JSON.stringify for the slot, if any
    identity,    \* what setOrCheckFidesConsentCookie returned since the slot was last dropped
    submits      \* number of submissions so far

vars == <<cookie, uuids, session, mounted, chain, cells, prefs, pending, lastSubmit,
          identity, written, submits>>

\* The clock read by new Date(): every mount and every submission happens at
\* a later time than the one before.
Now == session + submits

Sessions == 1..MaxSessions

InitialCells ==
    [consent |-> FALSE, deviceId |-> "", userGeo |-> <<>>,
     privacyNotice |-> EmptyObject, noticeServed |-> EmptyObject,
     privacyExperience |-> EmptyObject]

\* pc: "unstarted", "crashed" (the effect threw), "location", "experience",
\* "served" (awaiting that response), "stopped" (ended, nothing published),
\* "done" (state cells set), "retired" (an ended run of an earlier mount).
\* stage: the last state of the reconciler the run reached.
\* awaiting: the requests of the run that have not been answered yet.
\* locationSent, experienceSent, servedSent: how many geolocation, catalog
\* and notices-served requests the run has issued.
\* fault: "none", "caught" (console.error in the catch of
\* fetchRegionAndNotices) or "unhandled" (processNotices rejected, no handler).
InitialChain ==
    [pc |-> "unstarted", stage |-> "Uninitialized", fault |-> "none",
     awaiting |-> {}, locationSent |-> 0, experienceSent |-> 0,
     fidesDeviceId |-> "", locationData |-> Undefined, userGeo |-> <<>>, region |-> <<>>,
     noticesData |-> Undefined, servedSent |-> 0, servedReq |-> Undefined,
     servedResp |-> Undefined]
RetiredChain == [InitialChain EXCEPT !.pc = "retired"]
Ended == {"crashed", "stopped", "done", "retired"}

NoIdentity == [first |-> "", last |-> "", returns |-> 0, generated |-> 0, threw |-> FALSE]
NoSubmit == [tag |-> "none"]

Init ==
    /\ cookie \in InitialSlots
    /\ uuids = 0
    /\ session = 0
    /\ mounted = FALSE
    /\ chain = [s \in Sessions |-> InitialChain]
    /\ cells = InitialCells
    /\ prefs = <<>>
    /\ pending = 0
    /\ lastSubmit = NoSubmit
    /\ identity = NoIdentity
    /\ written = Undefined
    /\ submits = 0


\* ---------------------------------------------------------------- actions
\* An ended run of an earlier mount is forgotten.
Retire(ch) == IF ch.pc \in Ended THEN RetiredChain ELSE ch
Settle(s, ch) == IF s # session /\ ch.pc \in Ended THEN RetiredChain ELSE ch

\* A run that answers a failure by asking the geolocation service again.
StopAndRetry(ch, fault) ==
    [ch EXCEPT !.pc = "location", !.fault = fault, !.awaiting = {"location"},
               !.locationSent = @ + 1]

\* A run that, at a failure, goes on waiting for the answer it did not get.
StopAndStay(ch, fault) == [ch EXCEPT !.fault = fault]

Stop(ch, fault) == [ch EXCEPT !.pc = "stopped", !.fault = fault]

\* A request that is never taken off the outstanding ones.
AnsweredNever(ch, endpoint) == ch

\* `await fetch(...)` resumes: the request is no longer outstanding.
Answered(ch, endpoint) == [ch EXCEPT !.awaiting = @ \ {endpoint}]

\* useEffect(() => {...}, []) on mount: setOrCheckFidesConsentCookie, then
\* fetchRegionAndNotices() up to its first await (the geolocation request).
\* An exception thrown inside the effect unmounts the component tree.
Mount ==
    /\ ~mounted
    /\ session < MaxSessions
    /\ LET s == session + 1
           consentData == setOrCheckFidesConsentCookie(cookie, s + submits, Uuid(uuids + 1))
           ok == consentData.tag = "ok"
           older == [x \in Sessions |-> Retire(chain[x])]
       IN /\ session' = s
          /\ mounted' = ok
          /\ cookie' = IF ok THEN consentData.slot ELSE cookie
          /\ uuids' = IF ok /\ consentData.generated THEN uuids + 1 ELSE uuids
          /\ identity' =
                IF ~ok THEN [identity EXCEPT !.threw = TRUE]
                ELSE [first |-> IF identity.first = "" THEN consentData.value.deviceId
                                ELSE identity.first,
                      last |-> consentData.value.deviceId,
                      returns |-> identity.returns + 1,
                      generated |-> identity.generated
                                    + (IF consentData.generated THEN 1 ELSE 0),
                      threw |-> identity.threw]
          /\ written' = IF ok /\ consentData.generated THEN consentData.value ELSE written
          /\ chain' = [older EXCEPT ![s] =
                IF ok
                THEN [InitialChain EXCEPT !.pc = "location", !.stage = "IdentityReady",
                                          !.awaiting = {"location"}, !.locationSent = 1,
                                          !.fidesDeviceId = consentData.value.deviceId]
                ELSE [InitialChain EXCEPT !.pc = "crashed"]]
    /\ cells' = InitialCells
    /\ prefs' = <<>>
    /\ pending' = 0
    /\ lastSubmit' = NoSubmit
    /\ UNCHANGED submits

\* #1 the geolocation answer arrives: userGeo and region are computed and,
\* with a region, fetchPrivacyExperiences(region.toLowerCase()) is issued.
\* locationData.location of undefined: .toLowerCase() throws a TypeError,
\* which the catch of fetchRegionAndNotices logs.
LocationResponseFrom(s, answers) ==
    /\ chain[s].pc = "location"
    /\ \E r \in answers :
         LET ch == Answered(chain[s], "location")
             next ==
               IF r.tag = "fail" THEN Stop(ch, "caught")
               ELSE IF r.location.tag = "undefined"
               THEN Stop([ch EXCEPT !.locationData = r], "caught")
               ELSE LET userGeo == replace(toLowerCase(r.location.val), "-", "_")
                        region == r.country
                    IN IF Truthy(region)
                       THEN [ch EXCEPT !.pc = "experience", !.stage = "RegionResolved",
                                       !.awaiting = @ \cup {"experience"},
                                       !.experienceSent = @ + 1,
                                       !.locationData = r,
                                       !.userGeo = userGeo,
                                       !.region = toLowerCase(region.val)]
                       ELSE Stop([ch EXCEPT !.locationData = r], "none")
         IN chain' = [chain EXCEPT ![s] = Settle(s, next)]
    /\ UNCHANGED <<cookie, uuids, session, mounted, cells, prefs, pending, lastSubmit,
                   identity, written, submits>>

\* #2 the catalog answer arrives; #3 processNotices runs up to its await:
\* it throws, or issues the notices-served request.  processNotices is not
\* awaited, so what it throws is never caught.
ExperienceResponseFrom(s, answers) ==
    /\ chain[s].pc = "experience"
    /\ \E r \in answers :
         LET ch == Answered(chain[s], "experience")
             next ==
               IF r.tag = "fail" THEN Stop(ch, "caught")
               ELSE IF r.tag = "null" THEN Stop(ch, "none")
               ELSE LET body == noticesServedBody(r, ch.fidesDeviceId, ch.userGeo)
                    IN IF body.tag = "throw"
                       THEN Stop([ch EXCEPT !.noticesData = r], "unhandled")
                       ELSE [ch EXCEPT !.pc = "served", !.stage = "NoticeResolved",
                                       !.awaiting = @ \cup {"served"},
                                       !.noticesData = r, !.servedReq = body,
                                       !.servedSent = @ + 1]
         IN chain' = [chain EXCEPT ![s] = Settle(s, next)]
    /\ UNCHANGED <<cookie, uuids, session, mounted, cells, prefs, pending, lastSubmit,
                   identity, written, submits>>

LocationResponse(s) == LocationResponseFrom(s, LocationResponses)

ExperienceResponse(s) == ExperienceResponseFrom(s, ExperienceResponses)

\* setPrivacyNotice alone: the notice is exposed, the other cells are not set.
PublishNoticeOnly(c, ch, items) ==
    [c EXCEPT !.privacyNotice = selectNotice(ch.noticesData)]

\* The state setters called with the first notice of the experience in
\* place of the signup notice.
PublishFirstNotice(c, ch, items) ==
    [c EXCEPT !.privacyNotice = FirstItem(ch.noticesData).privacy_notices[1],
              !.deviceId = ch.fidesDeviceId,
              !.noticeServed = IF items = <<>> THEN Undefined
                               ELSE [tag |-> "served", served_notice_history_id |-> items[1]],
              !.userGeo = ch.userGeo,
              !.privacyExperience = FirstItem(ch.noticesData)]

\* setPrivacyNotice .. setPrivacyExperience after the notices-served answer.
Publish(c, ch, items) ==
    [c EXCEPT !.privacyNotice = selectNotice(ch.noticesData),
              !.deviceId = ch.fidesDeviceId,
              !.noticeServed = IF items = <<>> THEN Undefined
                               ELSE [tag |-> "served", served_notice_history_id |-> items[1]],
              !.userGeo = ch.userGeo,
              !.privacyExperience = FirstItem(ch.noticesData)]

\* The notices-served answer arrives: the five state cells are set (React
\* drops the updates of an instance that is no longer mounted).
ServedResponse(s) ==
    /\ chain[s].pc = "served"
    /\ \E r \in ServedResponses :
         LET ch == Answered(chain[s], "served")
             live == s = session /\ mounted
         IN IF r.tag = "fail"
            THEN /\ chain' = [chain EXCEPT ![s] = Settle(s, Stop(ch, "unhandled"))]
                 /\ cells' = cells
            ELSE /\ chain' = [chain EXCEPT ![s] =
                        Settle(s, [ch EXCEPT !.pc = "done", !.stage = "Served",
                                             !.servedResp = r])]
                 /\ cells' = IF live THEN Publish(cells, ch, r.items) ELSE cells
    /\ UNCHANGED <<cookie, uuids, session, mounted, prefs, pending, lastSubmit,
                   identity, written, submits>>

\* handleCheckboxChange: the user ticks or unticks the consent checkbox.
HandleCheckboxChange ==
    /\ mounted
    /\ CheckboxShown(cells)
    /\ cells' = [cells EXCEPT !.consent = ~cells.consent]
    /\ UNCHANGED <<cookie, uuids, session, mounted, chain, prefs, pending, lastSubmit,
                   identity, written, submits>>

\* A handleSubmit that records the notice as served once more on its way.
HandleSubmitServing ==
    /\ mounted
    /\ SubmitEnabled(cells)
    /\ submits < MaxSubmits
    /\ LET upd == updateConsentCookie(cookie, cells.consent)
           body == recordConsentOnServer(cells)
           sent == upd.tag = "ok" /\ body.tag = "body"
       IN /\ cookie' = IF upd.tag = "ok" THEN upd.slot ELSE cookie
          /\ written' = IF upd.tag = "ok" /\ upd.wrote THEN upd.value ELSE written
          /\ prefs' = IF sent THEN Append(prefs, body) ELSE prefs
          /\ pending' = IF sent THEN pending + 1 ELSE pending
          /\ lastSubmit' = [tag |-> "submit", consent |-> cells.consent, at |-> Now + 1,
                            before |-> cookie,
                            wrote |-> upd.tag = "ok" /\ upd.wrote,
                            sent |-> sent,
                            reply |-> IF sent THEN "pending" ELSE "none",
                            rejected |-> upd.tag = "throw",
                            unhandled |-> upd.tag = "ok" /\ body.tag = "throw"]
    /\ submits' = submits + 1
    /\ chain' = [chain EXCEPT ![session].servedSent = @ + 1]
    /\ UNCHANGED <<uuids, session, mounted, cells, identity>>

\* handleSubmit: updateConsentCookie(), then recordConsentOnServer() without
\* awaiting it.  An exception of updateConsentCookie rejects handleSubmit
\* before the request is built; one of recordConsentOnServer rejects a
\* promise nobody handles.
HandleSubmit ==
    /\ mounted
    /\ SubmitEnabled(cells)
    /\ submits < MaxSubmits
    /\ LET upd == updateConsentCookie(cookie, cells.consent)
           body == recordConsentOnServer(cells)
           sent == upd.tag = "ok" /\ body.tag = "body"
       IN /\ cookie' = IF upd.tag = "ok" THEN upd.slot ELSE cookie
          /\ written' = IF upd.tag = "ok" /\ upd.wrote THEN upd.value ELSE written
          /\ prefs' = IF sent THEN Append(prefs, body) ELSE prefs
          /\ pending' = IF sent THEN pending + 1 ELSE pending
          /\ lastSubmit' = [tag |-> "submit", consent |-> cells.consent, at |-> Now + 1,
                            before |-> cookie,
                            wrote |-> upd.tag = "ok" /\ upd.wrote,
                            sent |-> sent,
                            reply |-> IF sent THEN "pending" ELSE "none",
                            rejected |-> upd.tag = "throw",
                            unhandled |-> upd.tag = "ok" /\ body.tag = "throw"]
    /\ submits' = submits + 1
    /\ UNCHANGED <<uuids, session, mounted, chain, cells, identity>>

\* The answer of a privacy-preferences request arrives, or the request
\* fails: `await fetch(...)` is the last statement of recordConsentOnServer,
\* whose promise handleSubmit neither awaits nor handles.  The request is
\* the one of the latest submission, or one sent before it.
PreferenceReplies == {"ok", "failed"}
PreferenceResponse ==
    /\ pending > 0
    /\ pending' = pending - 1
    /\ \E r \in PreferenceReplies :
          \/ /\ lastSubmit.tag = "submit" /\ lastSubmit.reply = "pending"
             /\ lastSubmit' = [lastSubmit EXCEPT !.reply = r]
          \/ /\ pending > (IF lastSubmit.tag = "submit" /\ lastSubmit.reply = "pending"
                           THEN 1 ELSE 0)
             /\ lastSubmit' = lastSubmit
    /\ UNCHANGED <<cookie, uuids, session, mounted, chain, cells, prefs,
                   identity, written, submits>>

\* The component is torn down (navigation away, reload).
Unmount ==
    /\ mounted
    /\ mounted' = FALSE
    /\ cells' = InitialCells
    /\ UNCHANGED <<cookie, uuids, session, chain, prefs, pending, lastSubmit, identity, written,
                   submits>>

\* The browser drops the cookie: max-age ran out, or the user deleted it.
ClearCookie ==
    /\ cookie # NoCookie
    /\ cookie' = NoCookie
    /\ identity' = NoIdentity
    /\ written' = Undefined
    /\ UNCHANGED <<uuids, session, mounted, chain, cells, prefs, pending, lastSubmit, submits>>

Next ==
    \/ Mount
    \/ \E s \in Sessions : LocationResponse(s)
    \/ \E s \in Sessions : ExperienceResponse(s)
    \/ \E s \in Sessions : ServedResponse(s)
    \/ HandleCheckboxChange
    \/ HandleSubmit
    \/ PreferenceResponse
    \/ Unmount
    \/ ClearCookie

Spec == Init /\ [][Next]_vars

\* ------------------------------------------------ the startup alone
\* Page loads, the runs they start and teardowns, without the form: the
\* handlers of the form leave the runs as they are.  Every request of a run
\* is answered or fails in the end.
NextStartup ==
    \/ Mount
    \/ \E s \in Sessions : LocationResponse(s)
    \/ \E s \in Sessions : ExperienceResponse(s)
    \/ \E s \in Sessions : ServedResponse(s)
    \/ Unmount
    \/ ClearCookie

Fairness ==
    \A s \in Sessions :
        /\ WF_vars(LocationResponse(s))
        /\ WF_vars(ExperienceResponse(s))
        /\ WF_vars(ServedResponse(s))

SpecLive == Init /\ [][NextStartup]_vars /\ Fairness

\* ------------------------------------------ a slot with other writers
\* The cookie belongs to the site, not to the component: another script or
\* another tab of the site stores text under fides_consent that this
\* component cannot parse, at any moment, also while the form is shown.
ForeignWrite ==
    /\ cookie # Stored(<<"garbage">>)
    /\ cookie' = Stored(<<"garbage">>)
    /\ identity' = NoIdentity
    /\ written' = Undefined
    /\ UNCHANGED <<uuids, session, mounted, chain, cells, prefs, pending, lastSubmit,
                   submits>>

NextShared == Next \/ ForeignWrite

SpecShared == Init /\ [][NextShared]_vars

\* ------------------------------------------- the notice selection alone
\* Every catalog answer whose first experience holds up to MaxNotices
\* notices, alone on the page or followed by a second experience that has a
\* signup notice of its own.
Unkeyed == Notice(Undefined, "h4", "No key")
SignupTerms == Notice(Str(<<"signup", "_", "terms">>), "h5", "Terms")
LaterSignup == Notice(Str(<<"late", "_", "signup">>), "h9", "Later")
NoticeKinds == {Marketing, EmailSignup, OtherSignup, Unkeyed, SignupTerms}
NoticeLists == UNION {[1..n -> NoticeKinds] : n \in 0..MaxNotices}
SelectPages ==
    {Page(<<>>)}
    \cup {Page(<<Experience("e1", l)>> \o rest) :
            l \in NoticeLists,
            rest \in {<<>>, <<Experience("e2", <<LaterSignup>>)>>}}

\* A mounted instance whose run awaits the catalog answer.
InitSelect ==
    LET consentData == setOrCheckFidesConsentCookie(NoCookie, 1, Uuid(1))
        userGeo == replace(toLowerCase(<<"E", "N", "-", "U", "S">>), "-", "_")
    IN /\ cookie = consentData.slot
       /\ uuids = 1
       /\ session = 1
       /\ mounted = TRUE
       /\ chain = [s \in Sessions |->
                     IF s = 1
                     THEN [InitialChain EXCEPT !.pc = "experience",
                                               !.stage = "RegionResolved",
                                               !.awaiting = {"experience"},
                                               !.locationSent = 1,
                                               !.experienceSent = 1,
                                               !.fidesDeviceId = consentData.value.deviceId,
                                               !.userGeo = userGeo,
                                               !.region = toLowerCase(<<"U", "S">>)]
                     ELSE InitialChain]
       /\ cells = InitialCells
       /\ prefs = <<>>
       /\ pending = 0
       /\ lastSubmit = NoSubmit
       /\ identity = [first |-> consentData.value.deviceId,
                      last |-> consentData.value.deviceId,
                      returns |-> 1, generated |-> 1, threw |-> FALSE]
       /\ written = consentData.value
       /\ submits = 0

SelectNotice == ExperienceResponseFrom(1, SelectPages)

SpecSelect == InitSelect /\ [][SelectNotice]_vars

\* ------------------------------------------- the region resolution alone
\* Every geolocation answer whose location has up to MaxLocation characters
\* out of "U", "S" and the separator "-", with the country "US".
LocationChars == {"U", "S", "-"}
LocationStrings == UNION {[1..n -> LocationChars] : n \in 0..MaxLocation}
GeoResponses ==
    {[tag |-> "json", location |-> Str(l), country |-> Str(<<"U", "S">>)] :
        l \in LocationStrings}

\* A mounted instance whose run awaits the geolocation answer.
InitGeo ==
    LET consentData == setOrCheckFidesConsentCookie(NoCookie, 1, Uuid(1))
    IN /\ cookie = consentData.slot
       /\ uuids = 1
       /\ session = 1
       /\ mounted = TRUE
       /\ chain = [s \in Sessions |->
                     IF s = 1
                     THEN [InitialChain EXCEPT !.pc = "location",
                                               !.stage = "IdentityReady",
                                               !.awaiting = {"location"},
                                               !.locationSent = 1,
                                               !.fidesDeviceId = consentData.value.deviceId]
                     ELSE InitialChain]
       /\ cells = InitialCells
       /\ prefs = <<>>
       /\ pending = 0
       /\ lastSubmit = NoSubmit
       /\ identity = [first |-> consentData.value.deviceId,
                      last |-> consentData.value.deviceId,
                      returns |-> 1, generated |-> 1, threw |-> FALSE]
       /\ written = consentData.value
       /\ submits = 0

ResolveRegion == LocationResponseFrom(1, GeoResponses)

SpecGeo == InitGeo /\ [][ResolveRegion]_vars


\* load(): the record in the slot as the component reads it.
Load(slot) ==
    LET v == getCookie(slot)
    IN IF v.tag = "throw" THEN v
       ELSE IF Truthy(v) THEN JSONparse(v.val)
       ELSE Undefined

\* ----------------------------------------------------------------- claims

\* C1: while the slot is not dropped, every setOrCheckFidesConsentCookie
\* returns the device id the first one returned, whatever submissions come
\* between them; none throws, and at most one id is generated.
C1_IdempotentIdentity ==
    identity.first # "" =>
        /\ identity.last = identity.first
        /\ identity.generated <= 1
        /\ ~identity.threw

\* A second startup returned the id the first startup generated, after a
\* submission of the first session rewrote the record.
C1_Witness ==
    /\ session = 2 /\ mounted
    /\ submits >= 1 /\ lastSubmit = NoSubmit
    /\ identity.returns = 2
    /\ identity.generated = 1
    /\ identity.last = identity.first
    /\ Load(cookie).tag = "obj" /\ Load(cookie).val.consent

\* C2: every submit sends a privacy-preferences body whose preference is
\* opt_in for a ticked checkbox and opt_out for an unticked one.
C2_EverySubmitSends ==
    lastSubmit.tag = "submit" =>
        /\ lastSubmit.sent
        /\ prefs # <<>>
        /\ prefs[Len(prefs)].preference = (IF lastSubmit.consent THEN "opt_in" ELSE "opt_out")

\* C3: every privacy-preferences body sent by an instance carries the first
\* served_notice_history_id of the notices-served answer that instance got;
\* none is sent without such an answer.
C3_ServedReference ==
    \A i \in 1..Len(prefs) :
        LET r == chain[session].servedResp
        IN /\ r.tag = "json"
           /\ r.items # <<>>
           /\ prefs[i].served_notice_history_id = r.items[1]

\* Two submissions after an answer of two served records.
C3_Witness ==
    /\ Len(prefs) = 2
    /\ chain[session].servedResp.tag = "json"
    /\ Len(chain[session].servedResp.items) = 2
    /\ prefs[1].served_notice_history_id = "s2"
    /\ prefs[2].served_notice_history_id = "s2"

\* C4: whenever Submit is enabled the run has reached Served and holds a
\* served reference, and no privacy-preferences request is sent before that.
C4_SubmitGate ==
    /\ (mounted /\ SubmitEnabled(cells)) =>
          /\ chain[session].stage = "Served"
          /\ cells.noticeServed.tag = "served"
    /\ prefs # <<>> =>
          /\ chain[session].servedResp.tag = "json"
          /\ chain[session].servedResp.items # <<>>

\* C5: after a submission the consent flag of the record in the slot is
\* the submitted decision, and the preference that submission sent is opt_in
\* exactly when that flag is true.
C5_LocalRemoteAgreement ==
    (lastSubmit.tag = "submit" /\ cookie # NoCookie) =>
        LET rec == Load(cookie)
        IN /\ rec.tag = "obj"
           /\ rec.val.consent = lastSubmit.consent
           /\ lastSubmit.sent =>
                (prefs[Len(prefs)].preference = "opt_in" <=> rec.val.consent)

\* A second submission, unticked after a ticked one, sent and recorded.
C5_Witness ==
    /\ lastSubmit.tag = "submit"
    /\ lastSubmit.sent /\ lastSubmit.wrote
    /\ ~lastSubmit.consent
    /\ Len(prefs) = 2 /\ prefs[1].preference = "opt_in"
    /\ cookie # NoCookie

\* C6: after an empty notices-served answer the run stays at NoticeResolved
\* and a later submit is rejected to its caller, sending nothing.
C6_EmptyServedHalts ==
    \A s \in Sessions :
        (chain[s].servedResp.tag = "json" /\ chain[s].servedResp.items = <<>>) =>
            /\ chain[s].stage = "NoticeResolved"
            /\ (s = session /\ lastSubmit.tag = "submit") =>
                  (lastSubmit.rejected /\ ~lastSubmit.sent)

\* C7: when the first experience has no notice whose key ends with "signup"
\* the run ends at RegionResolved without a notices-served request, exposes
\* nothing, and reports no fault.
NoSignupNotice(ch) ==
    /\ ch.noticesData.tag = "json"
    /\ ch.noticesData.items # <<>>
    /\ \A i \in 1..Len(ch.noticesData.items[1].privacy_notices) :
          ~IsSignup(ch.noticesData.items[1].privacy_notices[i])
C7_NoSignupIsEmptyResult ==
    \A s \in Sessions :
        NoSignupNotice(chain[s]) =>
            /\ chain[s].pc = "stopped"
            /\ chain[s].stage = "RegionResolved"
            /\ chain[s].servedReq = Undefined
            /\ (s = session => cells = [InitialCells EXCEPT !.consent = cells.consent])
            /\ chain[s].fault = "none"

\* C8: a submission leaves deviceId, createdAt, version and the fields the
\* component does not know as they were in the record.
C8_UpdateFrame ==
    (lastSubmit.tag = "submit" /\ cookie # NoCookie /\ Load(lastSubmit.before).tag = "obj") =>
        LET b == Load(lastSubmit.before)
            a == Load(cookie)
        IN /\ a.tag = "obj"
           /\ a.val.deviceId = b.val.deviceId
           /\ a.val.createdAt = b.val.createdAt
           /\ a.val.version = b.val.version
           /\ a.val.extra = b.val.extra

\* A submission that flipped the consent flag of a record with unknown
\* fields holding ";", "%" and "=".
C8_Witness ==
    /\ lastSubmit.tag = "submit" /\ lastSubmit.wrote
    /\ cookie # NoCookie
    /\ Load(cookie).val.extra = <<";", "%", "=">>
    /\ Load(cookie).val.consent # Load(lastSubmit.before).val.consent

\* C9: a submission that rewrites the record stamps updatedAt with the time
\* of the submission.
C9_UpdatedAtStamped ==
    (lastSubmit.tag = "submit" /\ lastSubmit.wrote /\ cookie # NoCookie) =>
        Load(cookie).val.updatedAt = ISOString(lastSubmit.at)


\* C10: processNotices selects, in the first experience of the page only,
\* the notice of lowest position whose key ends with "signup", and names it
\* in the notices-served request; with no such notice nothing is selected
\* and no request is made.
KeyEndsWithSignup(n) ==
    /\ n.notice_key.tag = "str"
    /\ Len(n.notice_key.val) >= 1
    /\ n.notice_key.val[Len(n.notice_key.val)] = "signup"
C10_FirstSignupSelected ==
    chain[1].noticesData.tag = "json" =>
        LET ch == chain[1]
            items == ch.noticesData.items
        IN IF items = <<>>
           THEN ch.pc = "stopped" /\ ch.servedReq = Undefined
           ELSE LET ns == items[1].privacy_notices
                    matches == {i \in 1..Len(ns) : KeyEndsWithSignup(ns[i])}
                IN IF matches = {}
                   THEN /\ selectNotice(ch.noticesData) = Undefined
                        /\ ch.pc = "stopped"
                        /\ ch.servedReq = Undefined
                   ELSE LET first == CHOOSE i \in matches : \A j \in matches : i <= j
                        IN /\ selectNotice(ch.noticesData) = ns[first]
                           /\ ch.pc = "served"
                           /\ ch.servedReq.privacy_notice_history_ids
                                = <<ns[first].privacy_notice_history_id>>
                           /\ ch.servedReq.privacy_experience_id = items[1].id

\* The list marketing, email_signup, other_signup: email_signup is served.
C10_Witness ==
    /\ chain[1].pc = "served"
    /\ chain[1].noticesData.items[1].privacy_notices = <<Marketing, EmailSignup, OtherSignup>>
    /\ chain[1].servedReq.privacy_notice_history_ids = <<"h1">>

\* C11: after a geolocation answer with a country, user_geography is the
\* location in lower case with every "-" turned into "_", so that no "-" is
\* left in it, and the catalog is asked for the country in lower case.
C11_RegionNormalized ==
    chain[1].pc = "experience" =>
        LET ch == chain[1]
            location == ch.locationData.location.val
            lower == toLowerCase(location)
        IN /\ ch.userGeo = [i \in 1..Len(lower) |-> IF lower[i] = "-" THEN "_" ELSE lower[i]]
           /\ \A i \in 1..Len(ch.userGeo) : ch.userGeo[i] # "-"
           /\ ch.region = toLowerCase(ch.locationData.country.val)

\* C12: every startup reaches IdentityReady: with unparseable content in
\* the slot setOrCheckFidesConsentCookie still returns a record (a default
\* one, written to the slot) and the run goes on to the geolocation request.
C12_LoadFailsSoft ==
    session >= 1 =>
        /\ chain[session].pc # "crashed"
        /\ chain[session].stage # "Uninitialized"
        /\ Load(cookie).tag # "throw"

\* C13: after a geolocation answer without a country the run has stopped at
\* IdentityReady, has asked neither the catalog nor notices-served, and
\* nothing was reported (no console.error, no rejection).
LacksCountry(ch) ==
    /\ ch.locationData.tag = "json"
    /\ ~Truthy(ch.locationData.country)
C13_NoCountryHaltsQuietly ==
    \A s \in Sessions :
        LacksCountry(chain[s]) =>
            /\ chain[s].pc = "stopped"
            /\ chain[s].stage = "IdentityReady"
            /\ chain[s].region = <<>>
            /\ chain[s].noticesData = Undefined
            /\ chain[s].servedReq = Undefined
            /\ chain[s].fault = "none"

\* C14: a run of the startup chain never ends by an exception nobody
\* catches: a step that fails is caught by fetchRegionAndNotices, and the
\* run stops at the stage it had reached.
C14_FailuresCaught ==
    \A s \in Sessions :
        /\ chain[s].fault # "unhandled"
        /\ chain[s].pc = "stopped" =>
              chain[s].stage \in {"IdentityReady", "RegionResolved", "NoticeResolved"}

\* C15: when the privacy-preferences request of a submission has failed,
\* handleSubmit has ended by rejecting (its caller is told of the failure),
\* and the record in the slot still holds the consent that submission wrote.
C15_RemoteFailureSurfaced ==
    (lastSubmit.tag = "submit" /\ lastSubmit.reply = "failed") =>
        /\ lastSubmit.rejected
        /\ (lastSubmit.wrote /\ cookie # NoCookie) =>
              (Load(cookie).tag = "obj" /\ Load(cookie).val.consent = lastSubmit.consent)

\* C16: the record in the slot reads back, field by field, as the object
\* that was last written to it, by setOrCheckFidesConsentCookie (a default
\* record) or by updateConsentCookie.
C16_RoundTrip ==
    (written # Undefined /\ cookie # NoCookie) =>
        Load(cookie) = [tag |-> "obj", val |-> written]

\* A default record created by a page load, read back and rewritten with
\* consent by a submission, then read back again.
C16_Witness ==
    /\ lastSubmit.tag = "submit" /\ lastSubmit.wrote
    /\ written # Undefined
    /\ written.deviceId = Uuid(1) /\ written.version = "0.9.0" /\ written.consent
    /\ Load(lastSubmit.before).tag = "obj" /\ ~Load(lastSubmit.before).val.consent
    /\ Load(cookie) = [tag |-> "obj", val |-> written]

\* C17: when a page load found a record in the slot, the consent checkbox
\* first appears showing the consent flag of that record.
C17_PrefillsPriorChoice ==
    [][(/\ mounted /\ ~CheckboxShown(cells) /\ CheckboxShown(cells')
        /\ Load(cookie).tag = "obj")
       => cells'.consent = Load(cookie).val.consent]_vars

\* C18: every run of the startup chain issues at most one notices-served
\* request, and an instance whose form has been submitted, however often,
\* has issued exactly one.
C18_ServedOncePerSession ==
    /\ \A s \in Sessions : chain[s].servedSent <= 1
    /\ lastSubmit.tag = "submit" => chain[session].servedSent = 1

\* Two submissions of one instance, one notices-served request.
C18_Witness ==
    /\ Len(prefs) = 2
    /\ lastSubmit.tag = "submit" /\ lastSubmit.sent
    /\ chain[session].servedSent = 1
    /\ chain[session].servedReq.tag = "body"

\* C19: no submission ends before its privacy-preferences request is
\* attempted: when updateConsentCookie cannot read or write the record,
\* recordConsentOnServer is called all the same.
C19_RemoteAttemptedAnyway ==
    lastSubmit.tag = "submit" => ~lastSubmit.rejected

\* C20: at most one privacy-preferences request is awaiting its answer: a
\* submit that arrives while one is outstanding sends no second request.
C20_OneRequestInFlight ==
    pending <= 1

\* C21: once an instance is torn down its run does nothing more: a step of
\* the run writes no state cell and issues no request (neither the catalog
\* request nor the notices-served request).
TornDown(s) == s <= session /\ (s < session \/ ~mounted)
C21_TeardownGuard ==
    [][\A s \in Sessions :
         (/\ TornDown(s)
          /\ session' = session
          /\ chain'[s] # chain[s])
         => /\ cells' = cells
            /\ chain'[s].pc \notin {"experience", "served"}
            /\ chain'[s].servedSent = chain[s].servedSent]_vars

\* C22: a run has at most one request outstanding; the catalog request is
\* outstanding only after the geolocation answer has been received, and the
\* notices-served request only after the catalog answer has been received
\* and a signup notice selected from it.
C22_StartupOrdering ==
    \A s \in Sessions :
        LET ch == chain[s]
        IN /\ Cardinality(ch.awaiting) <= 1
           /\ ch.experienceSent >= 1 => ch.locationData.tag = "json"
           /\ ch.servedSent >= 1 =>
                 /\ ch.locationData.tag = "json"
                 /\ ch.noticesData.tag = "json"
                 /\ selectNotice(ch.noticesData).tag = "notice"
           /\ "experience" \in ch.awaiting => ch.noticesData = Undefined
           /\ "location" \in ch.awaiting => ch.locationData = Undefined

\* The notices-served request is the one outstanding, after the two answers.
C22_Witness ==
    /\ mounted
    /\ chain[session].awaiting = {"served"}
    /\ chain[session].locationSent = 1 /\ chain[session].experienceSent = 1
    /\ chain[session].servedSent = 1
    /\ chain[session].locationData.tag = "json"
    /\ chain[session].noticesData.tag = "json"

\* C23: the privacy_notice_history_id of every privacy-preferences body
\* sent by an instance is the one history id named in the notices-served
\* request of that instance's run.
C23_ServedIsConsented ==
    \A i \in 1..Len(prefs) :
        LET req == chain[session].servedReq
        IN /\ req.tag = "body"
           /\ req.privacy_notice_history_ids = <<prefs[i].privacy_notice_history_id>>

\* A body sent for email_signup, the second notice of the experience.
C23_Witness ==
    /\ Len(prefs) >= 1
    /\ prefs[1].privacy_notice_history_id = "h1"
    /\ chain[session].servedReq.tag = "body"
    /\ chain[session].servedReq.privacy_notice_history_ids = <<"h1">>
    /\ chain[session].noticesData.items[1].privacy_notices[1] = Marketing

\* C24: a run issues each of its three requests at most once and has none
\* outstanding once it has stopped, whatever failed; a privacy-preferences
\* request is issued by a submission only, one per submission, and never
\* after the answer or the failure of an earlier one.
C24_NoRetries ==
    /\ [](\A s \in Sessions :
            /\ chain[s].locationSent <= 1
            /\ chain[s].experienceSent <= 1
            /\ chain[s].servedSent <= 1
            /\ chain[s].pc = "stopped" => chain[s].awaiting = {})
    /\ [][(pending' > pending \/ Len(prefs') > Len(prefs))
           => /\ submits' = submits + 1
              /\ pending' = pending + 1
              /\ Len(prefs') = Len(prefs) + 1]_vars

\* A submission whose request failed, with no request outstanding and
\* none added afterwards, in an instance whose run issued each of its
\* requests once.
C24_Witness ==
    /\ lastSubmit.tag = "submit" /\ lastSubmit.reply = "failed"
    /\ pending = 0 /\ Len(prefs) = 1
    /\ chain[session].pc = "done" /\ chain[session].awaiting = {}
    /\ chain[session].locationSent = 1
    /\ chain[session].experienceSent = 1
    /\ chain[session].servedSent = 1

\* C25: the five cells set by the startup chain are all at their initial
\* values, or the run of the mounted instance has received the
\* notices-served answer and every one of them holds what that run
\* selected, resolved and received; before that answer none of them is set.
C25_AtomicPublication ==
    \/ [cells EXCEPT !.consent = FALSE] = InitialCells
    \/ LET ch == chain[session]
       IN /\ mounted
          /\ ch.pc = "done" /\ ch.stage = "Served"
          /\ ch.servedResp.tag = "json"
          /\ cells.privacyNotice = selectNotice(ch.noticesData)
          /\ cells.privacyNotice.tag = "notice"
          /\ cells.deviceId = ch.fidesDeviceId
          /\ cells.userGeo = ch.userGeo
          /\ cells.privacyExperience = ch.noticesData.items[1]
          /\ cells.noticeServed =
                IF ch.servedResp.items = <<>> THEN Undefined
                ELSE [tag |-> "served",
                      served_notice_history_id |-> ch.servedResp.items[1]]

\* All five cells set by the run of the mounted instance.
C25_Witness ==
    /\ mounted /\ chain[session].pc = "done"
    /\ cells.privacyNotice = EmailSignup
    /\ cells.deviceId = Uuid(1)
    /\ cells.noticeServed = [tag |-> "served", served_notice_history_id |-> "s2"]
    /\ cells.userGeo = <<"e", "n", "_", "u", "s">>
    /\ cells.privacyExperience.tag = "experience"

\* C26: every privacy-preferences body sent by an instance names the device
\* id, the experience and the geography named in the notices-served request
\* of that instance's run, and that device id is the one of the record the
\* startup read from the slot (or created in it).
C26_SameContextAsServed ==
    prefs # <<>> =>
        LET req == chain[session].servedReq
            rec == Load(cookie)
        IN /\ req.tag = "body"
           /\ cookie # NoCookie => rec.tag = "obj"
           /\ \A i \in 1..Len(prefs) :
                 /\ prefs[i].fides_user_device_id = req.fides_user_device_id
                 /\ prefs[i].privacy_experience_id = req.privacy_experience_id
                 /\ prefs[i].user_geography = req.user_geography
                 /\ prefs[i].fides_user_device_id = identity.last \/ cookie = NoCookie
                 /\ cookie # NoCookie =>
                       rec.val.deviceId = prefs[i].fides_user_device_id

\* A body sent in a second session for the record an earlier visit left.
C26_Witness ==
    /\ session = 2 /\ mounted
    /\ Len(prefs) >= 1
    /\ cookie # NoCookie
    /\ prefs[1].fides_user_device_id = Uuid(0)
    /\ chain[session].servedReq.fides_user_device_id = Uuid(0)
    /\ prefs[1].privacy_experience_id = "e1"
    /\ prefs[1].user_geography = <<"e", "n", "_", "u", "s">>

\* C27: a submission that finds no cookie writes none and still sends its
\* privacy-preferences body; a startup that finds a record it can parse
\* leaves the slot as it is.
SubmitLeavesSlotAbsent ==
    (lastSubmit.tag = "submit" /\ lastSubmit.before = NoCookie) =>
        /\ ~lastSubmit.wrote
        /\ cookie = NoCookie
        /\ ~lastSubmit.rejected
StartupKeepsRecord ==
    [][(session' = session + 1 /\ Load(cookie).tag = "obj") => cookie' = cookie]_vars
C27_CreatedOnlyByStartup ==
    /\ []SubmitLeavesSlotAbsent
    /\ []((lastSubmit.tag = "submit" /\ lastSubmit.before = NoCookie) => lastSubmit.sent)
    /\ StartupKeepsRecord

\* C28: a run that is waiting for an answer ends, at Served or stopped at
\* the stage it had reached, with no request outstanding; and a run that
\* has ended does not move to another stage.
Active == {"location", "experience", "served"}
Quiescent(ch) == ch.pc \in Ended /\ ch.awaiting = {}
C28_StartupTerminates ==
    /\ \A s \in Sessions : (chain[s].pc \in Active) ~> Quiescent(chain[s])
    /\ [][\A s \in Sessions :
             (chain[s].pc \in {"stopped", "done"} /\ session' = session)
             => /\ chain'[s].pc \in {chain[s].pc, "retired"}
                /\ chain'[s].pc = chain[s].pc => chain'[s] = chain[s]]_vars

\* A run stopped at RegionResolved, nothing outstanding.
C28_Witness ==
    /\ session >= 1
    /\ chain[session].pc = "stopped"
    /\ chain[session].stage = "RegionResolved"
    /\ chain[session].experienceSent = 1
    /\ chain[session].awaiting = {}

====
